---- MODULE Spec2Model ----
(***************************************************************************)
(* The two STK automation scripts of phase2/, Satellite Network            *)
(* Analysis33.py and Satellite Network Analysis88.py, as state machines.   *)
(*                                                                         *)
(* st[v] is the state of script v (33 or 88): the fields of its            *)
(* SatelliteNetworkAnalyzer, the part of the host application (STK) the    *)
(* script talks to, the files written, and what the last method call       *)
(* returned.  A method is an operator from the state before the call, its  *)
(* arguments and the host's replies to the state after the call.  The host *)
(* is outside the repository: which of its calls raise, and which access   *)
(* rows it returns, are inputs of the actions.                             *)
(***************************************************************************)
EXTENDS Integers, Sequences, FiniteSets, TLC

VARIABLES st, pc, loc

vars == <<st, pc, loc>>

Versions == {33, 88}

(***************************************************************************)
(* Bounds of the model.                                                    *)
(***************************************************************************)
\* host objects one scenario may hold when the methods are called freely
MaxObjects == 3
\* requests of one analyze_network run the host replies to independently:
\* the later ones get the reply of the last of these
ScriptLen == 2

(***************************************************************************)
(* Generic helpers.                                                        *)
(***************************************************************************)
Range(f) == {f[i] : i \in DOMAIN f}

\* position of the first occurrence of x in seq, 0 when absent
Pos(seq, x) ==
    IF \E i \in 1..Len(seq) : seq[i] = x
    THEN CHOOSE i \in 1..Len(seq) : seq[i] = x /\ \A j \in 1..(i-1) : seq[j] # x
    ELSE 0

\* A method body is a sequence of host calls; `fail` names the host call that
\* raises ("none": no call raises).  A call the method does not make cannot
\* raise in it.
Raises(seq, fail) == Pos(seq, fail) > 0

\* host call x of the method was made and returned
Ran(seq, fail, x) ==
    /\ Pos(seq, x) > 0
    /\ (Pos(seq, fail) = 0 \/ Pos(seq, x) < Pos(seq, fail))

RECURSIVE SumSeq(_)
SumSeq(s) == IF s = <<>> THEN 0 ELSE Head(s) + SumSeq(Tail(s))

(***************************************************************************)
(* Handles of host objects: ClassName and InstanceName.                    *)
(***************************************************************************)
Handle(cls, name) == [cls |-> cls, name |-> name]

NoScenario == "None"

\* the result of a method call: what it returned, or that it raised
\* (at: the host call that raised)
Returned(op, value) == [op |-> op, raised |-> FALSE, at |-> "none", value |-> value]
Raised(op, call) == [op |-> op, raised |-> TRUE, at |-> call, value |-> <<>>]

(***************************************************************************)
(* __init__: the analyzer after construction, with the host started.       *)
(***************************************************************************)
NotStarted(name) ==
    [ stk |-> FALSE, visible |-> FALSE, scenario_name |-> name,
      scenario |-> NoScenario,
      satellites |-> <<>>, ground_stations |-> <<>>, aircraft |-> <<>>,
      open |-> FALSE, period |-> <<>>, epoch |-> <<>>, objects |-> {},
      window3d |-> FALSE, zoomed |-> FALSE,
      dirs |-> {}, files |-> {}, csv |-> <<>>, plot |-> <<>>, report |-> <<>>,
      calls |-> <<>>, args |-> <<>>, ret |-> Returned("none", <<>>) ]

InitCalls(v) ==
    IF v = 33 THEN <<"StartApplication", "Root">>
    ELSE <<"StartApplication", "Root", "Visible">>

\* SatelliteNetworkAnalyzer.__init__(scenario_name); an exception leaves no
\* analyzer behind, the host keeps running once StartApplication returned
init(v, name, fail) ==
    LET seq == InitCalls(v)
        s0 == NotStarted(name)
    IN [ s0 EXCEPT
           !.stk = Ran(seq, fail, "StartApplication"),
           !.visible = Ran(seq, fail, "StartApplication"),
           !.ret = IF Raises(seq, fail) THEN Raised("__init__", fail)
                   ELSE Returned("__init__", <<>>) ]

(***************************************************************************)
(* create_scenario                                                         *)
(***************************************************************************)
SecondsPerHour == 3600

CreateScenarioCalls ==
    <<"NewScenario", "CurrentScenario", "SetTimePeriod", "Epoch", "Rewind">>

\* The host refuses NewScenario while a scenario is loaded.
create_scenario(v, s, start_time, duration_hours, fail0) ==
    LET seq == CreateScenarioCalls
        fail == IF s.open THEN "NewScenario" ELSE fail0
        stop_time == start_time + duration_hours * SecondsPerHour
    IN [ s EXCEPT
           !.open = s.open \/ Ran(seq, fail, "NewScenario"),
           !.objects = IF Ran(seq, fail, "NewScenario") THEN {} ELSE s.objects,
           !.scenario = IF Ran(seq, fail, "CurrentScenario")
                        THEN s.scenario_name ELSE s.scenario,
           !.period = IF Ran(seq, fail, "SetTimePeriod")
                      THEN <<start_time, stop_time>>
                      ELSE IF Ran(seq, fail, "NewScenario") THEN <<>> ELSE s.period,
           !.epoch = IF Ran(seq, fail, "Epoch") THEN <<start_time>>
                     ELSE IF Ran(seq, fail, "NewScenario") THEN <<>> ELSE s.epoch,
           !.calls = <<>>, !.args = <<>>,
           !.ret = IF Raises(seq, fail) THEN Raised("create_scenario", fail)
                   ELSE Returned("create_scenario", <<>>) ]

(***************************************************************************)
(* The scenario's children: objects is the set of host objects of the      *)
(* loaded scenario; a handle names the object of its class and name.       *)
(***************************************************************************)
HasObject(s, h) == \E o \in s.objects : o.h = h

ObjectOf(s, h) == CHOOSE o \in s.objects : o.h = h

\* the objects with the one of o's handle replaced by o, or o added
PutObject(objs, o) == {x \in objs : x.h # o.h} \cup {o}

\* Children.New raises without a loaded scenario and for a name the class
\* already has; self.scenario = None raises before any host call is made.
NewRefused(s, h) == s.scenario = NoScenario \/ ~s.open \/ HasObject(s, h)

(***************************************************************************)
(* create_satellite.  The classical elements are set on a copy of the      *)
(* initial state (coe_axes); the host satellite changes at                 *)
(* SetPropagatorType, Assign and Propagate only.                           *)
(***************************************************************************)
CreateSatelliteCalls(v) ==
    IF v = 33
    THEN <<"New", "SetPropagatorType", "Propagator", "Representation",
           "ConvertTo", "SizeShapeType", "SizeShape", "SemiMajorAxis",
           "Eccentricity", "Orientation", "Inclination", "ArgOfPerigee",
           "AscNode=", "LocationType", "Location", "Location.Value",
           "Assign", "Propagate">>
    ELSE <<"New", "SetPropagatorType", "Propagator", "Representation",
           "ConvertTo", "SizeShapeType", "SizeShape", "SemiMajorAxis",
           "Eccentricity", "Orientation", "AscNodeType", "Inclination",
           "ArgOfPerigee", "AscNode", "AscNode.Value", "LocationType",
           "Location", "Location.Value", "Assign", "Propagate">>

\* the host call that hands raan_deg to the host
RaanCall(v) == IF v = 33 THEN "AscNode=" ELSE "AscNode.Value"

create_satellite(v, s, name, coe, fail0) ==
    LET seq == CreateSatelliteCalls(v)
        h == Handle("Satellite", name)
        fail == IF NewRefused(s, h) THEN "New" ELSE fail0
        satellite ==
            [ h |-> h,
              propagator |-> IF Ran(seq, fail, "SetPropagatorType")
                             THEN "J2Perturbation" ELSE "default",
              elements |-> IF Ran(seq, fail, "Assign")
                           THEN << [ SemiMajorAxis |-> coe.semi_major_axis_km,
                                     Eccentricity |-> coe.eccentricity,
                                     Inclination |-> coe.inclination_deg,
                                     ArgOfPerigee |-> coe.arg_perigee_deg,
                                     AscNode |-> coe.raan_deg,
                                     TrueAnomaly |-> coe.true_anomaly_deg ] >>
                           ELSE <<>>,
              propagated |-> Ran(seq, fail, "Propagate") ]
    IN [ s EXCEPT
           !.objects = IF Ran(seq, fail, "New")
                       THEN PutObject(s.objects, satellite) ELSE s.objects,
           !.satellites = IF Raises(seq, fail) THEN s.satellites
                          ELSE Append(s.satellites, h),
           !.calls = <<>>, !.args = <<>>,
           !.ret = IF Raises(seq, fail) THEN Raised("create_satellite", fail)
                   ELSE Returned("create_satellite", <<h>>) ]

(***************************************************************************)
(* create_ground_station                                                   *)
(***************************************************************************)
CreateGroundStationCalls == <<"New", "AssignGeodetic">>

create_ground_station(v, s, name, pos, fail0) ==
    LET seq == CreateGroundStationCalls
        h == Handle("Facility", name)
        fail == IF NewRefused(s, h) THEN "New" ELSE fail0
        facility ==
            [ h |-> h,
              position |-> IF Ran(seq, fail, "AssignGeodetic")
                           THEN <<pos.latitude, pos.longitude, pos.altitude_m>>
                           ELSE <<>>,
              elevation |-> <<>>, vo_elevation |-> <<>> ]
    IN [ s EXCEPT
           !.objects = IF Ran(seq, fail, "New")
                       THEN PutObject(s.objects, facility) ELSE s.objects,
           !.ground_stations = IF Raises(seq, fail) THEN s.ground_stations
                               ELSE Append(s.ground_stations, h),
           !.calls = <<>>, !.args = <<>>,
           !.ret = IF Raises(seq, fail) THEN Raised("create_ground_station", fail)
                   ELSE Returned("create_ground_station", <<h>>) ]

(***************************************************************************)
(* _calculate_destination, in fixed point: angles in degrees and radians   *)
(* and the values of sin and cos are integers in units of 1/Scale.         *)
(***************************************************************************)
Scale == 10000
\* pi, in units of 1/Scale
Pi == 31416
HalfPi == 15708

Abs(x) == IF x < 0 THEN -x ELSE x
Mul(a, b) == (a * b) \div Scale

\* math.radians / np.radians and math.degrees / np.degrees
Radians(deg) == ((deg \div 100) * 17453) \div Scale
Degrees(rad) == (rad * 5730) \div 100

\* x brought into [-Pi, Pi]
RECURSIVE WrapPi(_)
WrapPi(x) ==
    IF x > Pi THEN WrapPi(x - 2 * Pi)
    ELSE IF x < -Pi THEN WrapPi(x + 2 * Pi)
    ELSE x

\* the sine series on [-HalfPi, HalfPi]
SinSeries(x) ==
    LET x2 == Mul(x, x)
        t3 == Mul(x, x2) \div 6
        t5 == Mul(t3, x2) \div 20
        t7 == Mul(t5, x2) \div 42
        t9 == Mul(t7, x2) \div 72
    IN x - t3 + t5 - t7 + t9

Sin(x) ==
    LET w == WrapPi(x)
    IN IF w > HalfPi THEN SinSeries(Pi - w)
       ELSE IF w < -HalfPi THEN SinSeries(-Pi - w)
       ELSE SinSeries(w)

Cos(x) == Sin(x + HalfPi)

\* the angle of [lo, hi], within [-HalfPi, HalfPi], whose sine is y
RECURSIVE AsinBetween(_, _, _)
AsinBetween(y, lo, hi) ==
    IF hi - lo <= 1 THEN (IF Abs(Sin(hi) - y) < Abs(Sin(lo) - y) THEN hi ELSE lo)
    ELSE LET mid == (lo + hi) \div 2
         IN IF Sin(mid) <= y THEN AsinBetween(y, mid, hi)
            ELSE AsinBetween(y, lo, mid)

Asin(y) ==
    IF y >= Scale THEN HalfPi
    ELSE IF y <= -Scale THEN -HalfPi
    ELSE AsinBetween(y, -HalfPi, HalfPi)

\* the integer square root
RECURSIVE SqrtBetween(_, _, _)
SqrtBetween(n, lo, hi) ==
    IF hi - lo <= 1 THEN lo
    ELSE LET mid == (lo + hi) \div 2
         IN IF mid * mid <= n THEN SqrtBetween(n, mid, hi)
            ELSE SqrtBetween(n, lo, mid)

Sqrt(n) == SqrtBetween(n, 0, 2 * Scale)

Atan2(y, x) ==
    LET r == Sqrt(x * x + y * y)
        a == IF r = 0 THEN 0 ELSE Asin((y * Scale) \div r)
    IN IF r = 0 THEN 0
       ELSE IF x >= 0 THEN a
       ELSE IF y >= 0 THEN Pi - a
       ELSE -Pi - a

\* Earth radius in km
R == 6371

calculate_destination33(lat1, lon1, distance_km, bearing_deg) ==
    LET lat1_rad == Radians(lat1)
        lon1_rad == Radians(lon1)
        bearing_rad == Radians(bearing_deg)
        d == (distance_km * Scale) \div R
        lat2_rad == Asin(Mul(Sin(lat1_rad), Cos(d))
                         + Mul(Mul(Cos(lat1_rad), Sin(d)), Cos(bearing_rad)))
        lon2_rad == lon1_rad
                    + Atan2(Mul(Mul(Sin(bearing_rad), Sin(d)), Cos(lat1_rad)),
                            Cos(d) - Mul(Sin(lat1_rad), Sin(lat2_rad)))
    IN <<Degrees(lat2_rad), Degrees(lon2_rad)>>

calculate_destination88(lat1, lon1, distance_km, bearing_deg) ==
    LET lat1_rad == Radians(lat1)
        lon1_rad == Radians(lon1)
        bearing_rad == Radians(bearing_deg)
        d_R == (distance_km * Scale) \div R
        lat2_rad == Asin(Mul(Sin(lat1_rad), Cos(d_R))
                         + Mul(Mul(Cos(lat1_rad), Sin(d_R)), Cos(bearing_rad)))
        lon2_rad == lon1_rad
                    + Atan2(Mul(Mul(Sin(bearing_rad), Sin(d_R)), Cos(lat1_rad)),
                            Cos(d_R) - Mul(Sin(lat1_rad), Sin(lat2_rad)))
        lat2 == Degrees(lat2_rad)
        lon2 == Degrees(lon2_rad)
    IN <<lat2, lon2>>

calculate_destination(v, lat1, lon1, distance_km, bearing_deg) ==
    IF v = 33 THEN calculate_destination33(lat1, lon1, distance_km, bearing_deg)
    ELSE calculate_destination88(lat1, lon1, distance_km, bearing_deg)

\* the argument of arcsin as the doubles give it.  `rounding` is the error of
\* the floating-point sum in units of 1/Scale: which way the sum rounds is
\* decided by digits of the operands below the model's resolution.  With
\* distance_km = 0 the sum is sin(lat1) * 1.0 + 0.0, which is exact.
AsinArgument(lat1, distance_km, bearing_deg, rounding) ==
    LET lat1_rad == Radians(lat1)
        d == (distance_km * Scale) \div R
    IN Mul(Sin(lat1_rad), Cos(d))
       + Mul(Mul(Cos(lat1_rad), Sin(d)), Cos(Radians(bearing_deg)))
       + (IF distance_km = 0 THEN 0 ELSE rounding)

\* what a call of _calculate_destination gives: outside [-1, 1] np.arcsin
\* returns nan (and so do the operations on it), math.asin raises ValueError
destination(v, lat1, lon1, distance_km, bearing_deg, rounding) ==
    IF Abs(AsinArgument(lat1, distance_km, bearing_deg, rounding)) > Scale
    THEN [ raised |-> v = 88, nan |-> v = 33, value |-> <<>> ]
    ELSE [ raised |-> FALSE, nan |-> FALSE,
           value |-> calculate_destination(v, lat1, lon1, distance_km, bearing_deg) ]

(***************************************************************************)
(* create_aircraft                                                         *)
(***************************************************************************)
CreateAircraftCalls ==
    <<"New", "SetRouteType", "Route", "Waypoints",
      "Add1", "wp1.Latitude", "wp1.Longitude", "wp1.Altitude", "wp1.Speed",
      "Add2", "wp2.Latitude", "wp2.Longitude", "wp2.Altitude", "wp2.Speed",
      "Propagate">>

\* a variant: the second waypoint 100 km along the heading
distance_km_short == 10 * 10

\* distance_km of create_aircraft
distance_km == 1000

\* a waypoint as the host adds it
NewWaypoint == [Latitude |-> 0, Longitude |-> 0, Altitude |-> 0, Speed |-> 0]

\* waypoint n of the route after the host calls that returned
Waypoint(seq, fail, n, lat, lon, alt, speed) ==
    LET set(f) == Ran(seq, fail, IF n = 1 THEN "wp1." \o f ELSE "wp2." \o f)
    IN [ Latitude |-> IF set("Latitude") THEN lat ELSE NewWaypoint.Latitude,
         Longitude |-> IF set("Longitude") THEN lon ELSE NewWaypoint.Longitude,
         Altitude |-> IF set("Altitude") THEN alt ELSE NewWaypoint.Altitude,
         Speed |-> IF set("Speed") THEN speed ELSE NewWaypoint.Speed ]

create_aircraft(v, s, name, a, fail0) ==
    LET seq == CreateAircraftCalls
        h == Handle("Aircraft", name)
        fail == IF NewRefused(s, h) THEN "New" ELSE fail0
        dest == calculate_destination(v, a.latitude_start, a.longitude_start,
                                      distance_km, a.heading_deg)
        wp1 == Waypoint(seq, fail, 1, a.latitude_start, a.longitude_start,
                        a.altitude_m, a.speed_mps)
        wp2 == Waypoint(seq, fail, 2, dest[1], dest[2], a.altitude_m, a.speed_mps)
        waypoints == IF Ran(seq, fail, "Add2") THEN <<wp1, wp2>>
                     ELSE IF Ran(seq, fail, "Add1") THEN <<wp1>>
                     ELSE <<>>
        aircraft ==
            [ h |-> h,
              routeType |-> IF Ran(seq, fail, "SetRouteType")
                            THEN "GreatArc" ELSE "default",
              waypoints |-> waypoints,
              \* the waypoints the host propagated the route from
              route |-> IF Ran(seq, fail, "Propagate") THEN <<waypoints>> ELSE <<>> ]
    IN [ s EXCEPT
           !.objects = IF Ran(seq, fail, "New")
                       THEN PutObject(s.objects, aircraft) ELSE s.objects,
           !.aircraft = IF Raises(seq, fail) THEN s.aircraft
                        ELSE Append(s.aircraft, h),
           !.calls = <<>>, !.args = <<>>,
           !.ret = IF Raises(seq, fail) THEN Raised("create_aircraft", fail)
                   ELSE Returned("create_aircraft", <<h>>) ]

(***************************************************************************)
(* compute_access.  `ans` is the host's reply to one access request: the   *)
(* set ans.raises of host calls that raise, and the columns of its "Access *)
(* Data" provider.  The host refuses GetAccessToObject for an object that  *)
(* is not in the loaded scenario.                                          *)
(***************************************************************************)
\* position of the first call of seq that is in the set bad, 0 when none is
PosIn(seq, bad) ==
    IF \E i \in 1..Len(seq) : seq[i] \in bad
    THEN CHOOSE i \in 1..Len(seq) : seq[i] \in bad /\ \A j \in 1..(i-1) : seq[j] \notin bad
    ELSE 0

RaisesIn(seq, bad) == PosIn(seq, bad) > 0

RanIn(seq, bad, x) ==
    /\ Pos(seq, x) > 0
    /\ (PosIn(seq, bad) = 0 \/ Pos(seq, x) < PosIn(seq, bad))

\* default of the min_elevation_deg parameter
DefaultMinElevation == 10

ComputeAccessCalls(v, from_object) ==
    IF from_object.cls # "Facility"
    THEN <<"GetAccessToObject", "ComputeAccess">>
    ELSE IF v = 33
    THEN <<"GetAccessToObject", "AccessConstraints", "GetActiveConstraint",
           "EnableMin", "Min", "ComputeAccess">>
    ELSE <<"GetAccessToObject", "ElevationAngleConstraint", "VO.MinElevationAngle",
           "ComputeAccess">>

\* a variant: Analysis88 catches every exception of compute_access
EscapingOnly33(v, bad) == IF v = 33 THEN bad ELSE {}

\* the raising calls whose exception leaves compute_access: Analysis88
\* catches those of its two attempts to set the elevation
Escaping(v, bad) ==
    IF v = 33 THEN bad
    ELSE bad \ {"ElevationAngleConstraint", "VO.MinElevationAngle"}

\* a variant: Analysis88 without its second attempt
ElevationViaNoFallback(v, from_object, seq, bad) ==
    IF from_object.cls # "Facility" \/ ~RanIn(seq, Escaping(v, bad), "GetAccessToObject")
    THEN "none"
    ELSE IF v = 33
         THEN (IF RanIn(seq, bad, "Min") THEN "Min" ELSE "none")
         ELSE IF "ElevationAngleConstraint" \notin bad THEN "ElevationAngleConstraint"
         ELSE "none"

\* the host call that set the minimum elevation, "none" if none did: the last
\* call on the access constraint (33), the facility attribute or, when that
\* raised, the attribute of its VO (88)
ElevationVia(v, from_object, seq, bad) ==
    IF from_object.cls # "Facility" \/ ~RanIn(seq, Escaping(v, bad), "GetAccessToObject")
    THEN "none"
    ELSE IF v = 33
         THEN (IF RanIn(seq, bad, "Min") THEN "Min" ELSE "none")
         ELSE IF "ElevationAngleConstraint" \notin bad THEN "ElevationAngleConstraint"
         ELSE IF "VO.MinElevationAngle" \notin bad THEN "VO.MinElevationAngle"
         ELSE "none"

\* the result: the state, the record of the call, and whether it raised
compute_access(v, s, from_object, to_object, min_elevation_deg, ans) ==
    LET seq == ComputeAccessCalls(v, from_object)
        stale == ~s.open \/ ~HasObject(s, from_object) \/ ~HasObject(s, to_object)
        bad == IF stale THEN ans.raises \cup {"GetAccessToObject"} ELSE ans.raises
        out == Escaping(v, bad)
        via == ElevationVia(v, from_object, seq, bad)
        facility == ObjectOf(s, from_object)
        objects ==
            IF via = "ElevationAngleConstraint"
            THEN PutObject(s.objects,
                           [facility EXCEPT !.elevation = <<min_elevation_deg>>])
            ELSE IF via = "VO.MinElevationAngle"
            THEN PutObject(s.objects,
                           [facility EXCEPT !.vo_elevation = <<min_elevation_deg>>])
            ELSE s.objects
    IN [ s |-> [s EXCEPT !.objects = objects],
         call |-> [ from |-> from_object, to |-> to_object,
                    raises |-> bad, via |-> via,
                    computed |-> RanIn(seq, out, "ComputeAccess"),
                    \* the minimum elevation set when ComputeAccess was called
                    min_elevation |->
                        IF via # "none" /\ Pos(seq, via) < Pos(seq, "ComputeAccess")
                        THEN <<min_elevation_deg>> ELSE <<>>,
                    key |-> "", rows |-> <<>>, got |-> FALSE,
                    intervals |-> <<>>, stored |-> <<>> ],
         raised |-> RaisesIn(seq, out),
         at |-> IF RaisesIn(seq, out) THEN seq[PosIn(seq, out)] ELSE "none" ]

(***************************************************************************)
(* get_access_intervals                                                    *)
(***************************************************************************)
GetAccessIntervalsCalls ==
    <<"Item", "StartTime", "StopTime", "Exec", "GetDataSetByName", "GetValues">>

\* a variant: the "Stop Time" column read as the start and the other way round
MarshalSwapped(start_times, stop_times, durations, i) ==
    [k \in 1..(Len(start_times) - i + 1) |->
        [ start |-> stop_times[k + i - 1], stop |-> start_times[k + i - 1],
          duration |-> durations[k + i - 1] ]]

\* the three columns, marshalled into a list of dicts
RECURSIVE Marshal(_, _, _, _)
Marshal(start_times, stop_times, durations, i) ==
    IF i > Len(start_times) THEN <<>>
    ELSE << [ start |-> start_times[i], stop |-> stop_times[i],
              duration |-> durations[i] ] >>
         \o Marshal(start_times, stop_times, durations, i + 1)

\* a variant: the rows the host sent are returned although a call raised
get_access_intervals_unguarded(v, s, ans) ==
    Marshal(ans.start_times, ans.stop_times, ans.durations, 1)

get_access_intervals(v, s, ans) ==
    IF s.scenario = NoScenario \/ RaisesIn(GetAccessIntervalsCalls, ans.raises)
    THEN <<>>
    ELSE Marshal(ans.start_times, ans.stop_times, ans.durations, 1)

(***************************************************************************)
(* analyze_network.  results is the dict in insertion order: a sequence of *)
(* [key, intervals], a key assigned again keeps its place.                 *)
(***************************************************************************)
HasKey(d, k) == \E i \in 1..Len(d) : d[i].key = k

DictGet(d, k) == d[CHOOSE i \in 1..Len(d) : d[i].key = k].value

DictSet(d, k, val) ==
    IF HasKey(d, k)
    THEN [i \in 1..Len(d) |-> IF d[i].key = k THEN [key |-> k, value |-> val] ELSE d[i]]
    ELSE Append(d, [key |-> k, value |-> val])

\* f"{a.InstanceName}-{b.InstanceName}"
LinkKey(a, b) == a.name \o "-" \o b.name

\* the nested loops over xs (outer) and ys (inner), as the list of pairs
RECURSIVE Product(_, _, _, _)
Product(xs, ys, i, j) ==
    IF i > Len(xs) THEN <<>>
    ELSE IF j > Len(ys) THEN Product(xs, ys, i + 1, 1)
    ELSE <<  <<xs[i], ys[j]>>  >> \o Product(xs, ys, i, j + 1)

\* a variant: min_elevation_deg is not passed on for the accesses from a
\* ground station to an aircraft
RequestsDefaultToAircraft(s, min_elevation_deg) ==
    LET sg == Product(s.satellites, s.ground_stations, 1, 1)
        sa == Product(s.satellites, s.aircraft, 1, 1)
        ga == Product(s.ground_stations, s.aircraft, 1, 1)
    IN [i \in 1..Len(sg) |->
            [ from |-> sg[i][2], to |-> sg[i][1],
              min_elevation_deg |-> min_elevation_deg,
              key |-> LinkKey(sg[i][1], sg[i][2]) ]]
       \o [i \in 1..Len(sa) |->
            [ from |-> sa[i][2], to |-> sa[i][1],
              min_elevation_deg |-> DefaultMinElevation,
              key |-> LinkKey(sa[i][1], sa[i][2]) ]]
       \o [i \in 1..Len(ga) |->
            [ from |-> ga[i][1], to |-> ga[i][2],
              min_elevation_deg |-> DefaultMinElevation,
              key |-> LinkKey(ga[i][2], ga[i][1]) ]]

\* the access requests of analyze_network, in program order
Requests(s, min_elevation_deg) ==
    LET sg == Product(s.satellites, s.ground_stations, 1, 1)
        sa == Product(s.satellites, s.aircraft, 1, 1)
        ga == Product(s.ground_stations, s.aircraft, 1, 1)
    IN [i \in 1..Len(sg) |->
            [ from |-> sg[i][2], to |-> sg[i][1],
              min_elevation_deg |-> min_elevation_deg,
              key |-> LinkKey(sg[i][1], sg[i][2]) ]]
       \o [i \in 1..Len(sa) |->
            [ from |-> sa[i][2], to |-> sa[i][1],
              min_elevation_deg |-> DefaultMinElevation,
              key |-> LinkKey(sa[i][1], sa[i][2]) ]]
       \o [i \in 1..Len(ga) |->
            [ from |-> ga[i][1], to |-> ga[i][2],
              min_elevation_deg |-> min_elevation_deg,
              key |-> LinkKey(ga[i][2], ga[i][1]) ]]

\* the host's reply to the n-th access request of a run: the script's n-th,
\* its last to the requests beyond its length
Reply(script, n) == script[IF n < Len(script) THEN n ELSE Len(script)]

\* the loop from request n on: acc is [s, results, calls, raised]
RECURSIVE AnalyzeFrom(_, _, _, _, _)
AnalyzeFrom(v, reqs, script, n, acc) ==
    IF n > Len(reqs) \/ acc.raised THEN acc
    ELSE LET q == reqs[n]
             ans == Reply(script, n)
             c == compute_access(v, acc.s, q.from, q.to, q.min_elevation_deg, ans)
             intervals == get_access_intervals(v, c.s, ans)
             results == DictSet(acc.results, q.key, intervals)
             call == IF c.raised THEN c.call
                     ELSE [c.call EXCEPT
                             !.key = q.key,
                             !.rows = <<ans.start_times, ans.stop_times, ans.durations>>,
                             !.got = TRUE,
                             !.intervals = intervals,
                             \* results[key] once the assignment is made
                             !.stored = <<DictGet(results, q.key)>>]
         IN AnalyzeFrom(v, reqs, script, n + 1,
                [ s |-> c.s,
                  results |-> IF c.raised THEN acc.results ELSE results,
                  calls |-> Append(acc.calls, call),
                  raised |-> c.raised, at |-> c.at ])

analyze_network(v, s, min_elevation_deg, script) ==
    LET r == AnalyzeFrom(v, Requests(s, min_elevation_deg), script, 1,
                         [s |-> s, results |-> <<>>, calls |-> <<>>, raised |-> FALSE,
                          at |-> "none"])
    IN [ r.s EXCEPT
           !.calls = r.calls,
           !.args = <<min_elevation_deg>>,
           !.ret = IF r.raised THEN Raised("analyze_network", r.at)
                   ELSE Returned("analyze_network", r.results) ]

(***************************************************************************)
(* The output methods.  Analysis33 writes into the working directory,      *)
(* Analysis88 into ~/Desktop/STK_Analysis_Output, which it creates.        *)
(***************************************************************************)
OutputDir == "~/Desktop/STK_Analysis_Output"

OutputPath(v, filename) == IF v = 33 THEN filename ELSE OutputDir \o "/" \o filename

\* Analysis88 creates the directory when it is not there
OutputCalls(v, s, write) ==
    IF v = 33 \/ OutputDir \in s.dirs THEN <<write>> ELSE <<"makedirs", write>>

DirsAfter(v, s, seq, fail) ==
    IF Ran(seq, fail, "makedirs") THEN s.dirs \cup {OutputDir} ELSE s.dirs

\* a variant: a link with no interval gets a row of its own
LinkRowsWithEmpty(link, intervals) ==
    IF intervals = <<>>
    THEN << [Link |-> link, StartTime |-> 0, StopTime |-> 0, Duration |-> 0] >>
    ELSE [i \in 1..Len(intervals) |->
            [ Link |-> link, StartTime |-> intervals[i].start,
              StopTime |-> intervals[i].stop, Duration |-> intervals[i].duration ]]

\* one row per interval of a link
LinkRows(link, intervals) ==
    [i \in 1..Len(intervals) |->
        [ Link |-> link, StartTime |-> intervals[i].start,
          StopTime |-> intervals[i].stop, Duration |-> intervals[i].duration ]]

RECURSIVE CsvRows(_, _)
CsvRows(results, n) ==
    IF n > Len(results) THEN <<>>
    ELSE LinkRows(results[n].key, results[n].value) \o CsvRows(results, n + 1)

export_results_to_csv(v, s, results, filename, fail) ==
    LET seq == OutputCalls(v, s, "to_csv")
        filepath == OutputPath(v, filename)
        data == CsvRows(results, 1)
        written == Ran(seq, fail, "to_csv")
    IN [ s EXCEPT
           !.dirs = DirsAfter(v, s, seq, fail),
           !.files = IF written THEN s.files \cup {filepath} ELSE s.files,
           !.csv = IF written THEN <<[path |-> filepath, rows |-> data]>> ELSE s.csv,
           !.calls = <<>>, !.args = <<>>,
           !.ret = IF Raises(seq, fail) THEN Raised("export_results_to_csv", fail)
                   ELSE Returned("export_results_to_csv", data) ]

\* the bars are measured in 1/HourScale hours
HourScale == 100

\* start_hour of the bars of link number idx (from 0)
StartHour(idx, interval) == idx * 2 * HourScale

DurationHour(interval) == (interval.duration * HourScale) \div SecondsPerHour

LinkBars(idx, intervals) ==
    [i \in 1..Len(intervals) |->
        [ y |-> idx, width |-> DurationHour(intervals[i]),
          left |-> StartHour(idx, intervals[i]) ]]

RECURSIVE Bars(_, _)
Bars(results, n) ==
    IF n > Len(results) THEN <<>>
    ELSE LinkBars(n - 1, results[n].value) \o Bars(results, n + 1)

visualize_access_timeline(v, s, results, output_file, fail) ==
    LET seq == OutputCalls(v, s, "savefig")
        filepath == OutputPath(v, output_file)
        written == Ran(seq, fail, "savefig")
        figure == [ path |-> filepath,
                    yticklabels |-> [i \in 1..Len(results) |-> results[i].key],
                    xlabel |-> "Time (hours from start)",
                    bars |-> Bars(results, 1) ]
    IN [ s EXCEPT
           !.dirs = DirsAfter(v, s, seq, fail),
           !.files = IF written THEN s.files \cup {filepath} ELSE s.files,
           !.plot = IF written THEN <<figure>> ELSE s.plot,
           !.calls = <<>>, !.args = <<>>,
           !.ret = IF Raises(seq, fail) THEN Raised("visualize_access_timeline", fail)
                   ELSE Returned("visualize_access_timeline", <<>>) ]

\* the durations of a link's intervals
Durations(intervals) == [i \in 1..Len(intervals) |-> intervals[i].duration]

\* a value printed with two decimals, in hundredths
TwoDecimals(num, den) == (num * 100) \div den

\* a variant: the total is reported as the average
ReportSectionTotalAsAverage(link, intervals) ==
    IF intervals # <<>>
    THEN LET total_duration == SumSeq(Durations(intervals))
         IN [ link |-> link, found |-> TRUE, periods |-> Len(intervals),
              total |-> total_duration,
              hours |-> TwoDecimals(total_duration, SecondsPerHour),
              average |-> TwoDecimals(total_duration, 1) ]
    ELSE [ link |-> link, found |-> FALSE, periods |-> 0, total |-> 0,
           hours |-> 0, average |-> 0 ]

ReportSection(link, intervals) ==
    IF intervals # <<>>
    THEN LET total_duration == SumSeq(Durations(intervals))
         IN [ link |-> link, found |-> TRUE, periods |-> Len(intervals),
              total |-> total_duration,
              hours |-> TwoDecimals(total_duration, SecondsPerHour),
              average |-> TwoDecimals(total_duration, Len(intervals)) ]
    ELSE [ link |-> link, found |-> FALSE, periods |-> 0, total |-> 0,
           hours |-> 0, average |-> 0 ]

\* the file is opened, then written; the header reads the scenario's period
generate_report(v, s, results, filename, fail0) ==
    LET seq == OutputCalls(v, s, "open") \o <<"StartTime", "StopTime">>
        fail == IF s.scenario = NoScenario /\ ~Raises(OutputCalls(v, s, "open"), fail0)
                THEN "StartTime" ELSE fail0
        filepath == OutputPath(v, filename)
        text == [ path |-> filepath, scenario |-> s.scenario_name,
                  period |-> s.period,
                  components |-> <<Len(s.satellites), Len(s.ground_stations),
                                   Len(s.aircraft)>>,
                  sections |-> [i \in 1..Len(results) |->
                                   ReportSection(results[i].key, results[i].value)] ]
    IN [ s EXCEPT
           !.dirs = DirsAfter(v, s, seq, fail),
           !.files = IF Ran(seq, fail, "open") THEN s.files \cup {filepath}
                     ELSE s.files,
           !.report = IF Raises(seq, fail) THEN s.report ELSE <<text>>,
           !.calls = <<>>, !.args = <<>>,
           !.ret = IF Raises(seq, fail) THEN Raised("generate_report", fail)
                   ELSE Returned("generate_report", <<>>) ]

(***************************************************************************)
(* Analysis88 only: save_scenario, open_3d_graphics, zoom_to_objects.      *)
(***************************************************************************)
\* filepath=None: the default path of the scenario file
ScenarioPath(s) == OutputDir \o "/" \o s.scenario_name \o ".sc"

NoPath == "None"

\* bad: the set of calls that raise
save_scenario(v, s, bad) ==
    LET filepath == ScenarioPath(s)
        made == OutputDir \in s.dirs \/ "makedirs" \notin bad
        saved == made /\ "SaveScenarioAs" \notin bad
        unloaded == made /\ ~saved /\ s.scenario # NoScenario /\ "Unload" \notin bad
    IN [ s EXCEPT
           !.dirs = IF made THEN s.dirs \cup {OutputDir} ELSE s.dirs,
           !.files = IF saved THEN s.files \cup {filepath} ELSE s.files,
           !.open = IF unloaded THEN FALSE ELSE s.open,
           !.objects = IF unloaded THEN {} ELSE s.objects,
           !.calls = <<>>, !.args = <<>>,
           !.ret = IF ~made THEN Raised("save_scenario", "makedirs")
                   ELSE IF saved \/ unloaded THEN Returned("save_scenario", filepath)
                   ELSE Returned("save_scenario", NoPath) ]

\* both swallow every exception of the host
open_3d_graphics(v, s, fail) ==
    LET seq == <<"CreateWindow", "ViewVolume">>
    IN [ s EXCEPT
           !.window3d = s.window3d \/ Ran(seq, fail, "CreateWindow"),
           !.calls = <<>>, !.args = <<>>,
           !.ret = Returned("open_3d_graphics", <<>>) ]

zoom_to_objects(v, s, fail) ==
    LET seq == <<"ZoomToAllObjects">>
    IN [ s EXCEPT
           !.zoomed = s.zoomed \/ Ran(seq, fail, "ZoomToAllObjects"),
           !.calls = <<>>, !.args = <<>>,
           !.ret = Returned("zoom_to_objects", <<>>) ]

(***************************************************************************)
(* close: self.stk.ShutDown() is commented out.                            *)
(***************************************************************************)
close(v, s) == [s EXCEPT !.calls = <<>>, !.args = <<>>, !.ret = Returned("close", <<>>)]

(***************************************************************************)
(* The arguments main passes, the inputs of the model.  Degrees are in     *)
(* units of 1/Scale, the eccentricity too.                                 *)
(***************************************************************************)
MainScenarioName == "MultiLayer_SatComm"

\* "1 Jan 2025 00:00:00.000", in seconds from the scenario's epoch
MainStartTime == 0
MainDurationHours == 24
MainMinElevation == 10

Coe(raan_deg) ==
    [ semi_major_axis_km |-> 7000, eccentricity |-> 10, inclination_deg |-> 980000,
      raan_deg |-> raan_deg, arg_perigee_deg |-> 0, true_anomaly_deg |-> 0 ]

MainSatellites ==
    << [name |-> "LEO_Sat_1", coe |-> Coe(0)],
       [name |-> "LEO_Sat_2", coe |-> Coe(1200000)] >>

Geodetic(lat, lon, alt) == [latitude |-> lat, longitude |-> lon, altitude_m |-> alt]

MainGroundStations ==
    << [name |-> "GS_NewYork", pos |-> Geodetic(407128, -740060, 10)],
       [name |-> "GS_London", pos |-> Geodetic(515074, -1278, 11)],
       [name |-> "GS_Tokyo", pos |-> Geodetic(356762, 1396503, 40)] >>

Flight(lat, lon, alt, speed, heading) ==
    [ latitude_start |-> lat, longitude_start |-> lon, altitude_m |-> alt,
      speed_mps |-> speed, heading_deg |-> heading ]

MainAircraft ==
    << [name |-> "Flight_AA100", a |-> Flight(407128, -740060, 10000, 250, 450000)],
       [name |-> "Flight_BA200", a |-> Flight(515074, -1278, 11000, 240, 900000)] >>

CsvName == "satellite_network_access.csv"
PngName == "access_timeline.png"
TxtName == "network_analysis_report.txt"

\* names of the objects when the methods are called freely: a satellite and
\* an aircraft may bear the same name
SatelliteNames == {"X", "Y"}
FacilityNames == {"G", "H"}
AircraftNames == {"X"}

\* a min_elevation_deg other than the default
ElevationInputs == {5}

(***************************************************************************)
(* The host's replies to an access request.                                *)
(***************************************************************************)
Columns(start_times, stop_times, durations) ==
    [start_times |-> start_times, stop_times |-> stop_times, durations |-> durations]

\* no access, one access period, two access periods
RowSets ==
    { Columns(<<>>, <<>>, <<>>),
      Columns(<<3600>>, <<5400>>, <<1800>>),
      Columns(<<7200, 14400>>, <<8100, 19800>>, <<900, 5400>>) }

RaiseSets ==
    { {"ComputeAccess"}, {"Exec"},
      {"ElevationAngleConstraint"},
      {"GetActiveConstraint", "ElevationAngleConstraint", "VO.MinElevationAngle"} }

Answer(bad, cols) ==
    [ raises |-> bad, start_times |-> cols.start_times,
      stop_times |-> cols.stop_times, durations |-> cols.durations ]

Answers ==
    {Answer({}, cols) : cols \in RowSets}
    \cup {Answer(bad, Columns(<<3600>>, <<5400>>, <<1800>>)) : bad \in RaiseSets}

\* the host's replies to the first requests of a run of n requests
Scripts(n) == [1..(IF n < ScriptLen THEN n ELSE ScriptLen) -> Answers]

(***************************************************************************)
(* Spec: the entity lists built by the create methods called in any order, *)
(* then one run of analyze_network, on both scripts side by side with the  *)
(* same arguments and the same replies of the host.                        *)
(***************************************************************************)
Idle == [at |-> 0, status |-> "idle"]

NoLocals == [results |-> <<>>, scenario_path |-> NoPath, listed |-> {}, said |-> {}]

Init ==
    /\ st = [v \in Versions |-> init(v, "SatComm_Network", "none")]
    /\ pc = [v \in Versions |-> Idle]
    /\ loc = [v \in Versions |-> NoLocals]

\* the host calls that raise in the runs of Spec
ScenarioFailures == {"none", "NewScenario"}
SatelliteFailures == {"none", "AscNode=", "AscNode.Value", "Propagate"}
GroundStationFailures == {"none", "AssignGeodetic"}
AircraftFailures == {"none", "Propagate"}

Analysed == \E v \in Versions : st[v].ret.op = "analyze_network"

Room == \A v \in Versions : Cardinality(st[v].objects) < MaxObjects

CreateScenario ==
    \E fail \in ScenarioFailures :
        /\ ~Analysed
        /\ \A v \in Versions : ~st[v].open
        /\ st' = [v \in Versions |->
                    create_scenario(v, st[v], MainStartTime, MainDurationHours, fail)]
        /\ UNCHANGED <<pc, loc>>

CreateSatellite ==
    \E name \in SatelliteNames, fail \in SatelliteFailures :
        /\ ~Analysed /\ Room
        /\ st' = [v \in Versions |->
                    create_satellite(v, st[v], name, MainSatellites[1].coe, fail)]
        /\ UNCHANGED <<pc, loc>>

CreateGroundStation ==
    \E name \in FacilityNames, fail \in GroundStationFailures :
        /\ ~Analysed /\ Room
        /\ st' = [v \in Versions |->
                    create_ground_station(v, st[v], name, MainGroundStations[1].pos, fail)]
        /\ UNCHANGED <<pc, loc>>

CreateAircraft ==
    \E name \in AircraftNames, fail \in AircraftFailures :
        /\ ~Analysed /\ Room
        /\ st' = [v \in Versions |->
                    create_aircraft(v, st[v], name, MainAircraft[1].a, fail)]
        /\ UNCHANGED <<pc, loc>>

\* both scripts are given the same replies, as many as the longer run asks for
AnalyzeNetwork ==
    \E min_elevation_deg \in ElevationInputs :
        LET n33 == Len(Requests(st[33], min_elevation_deg))
            n88 == Len(Requests(st[88], min_elevation_deg))
        IN \E script \in Scripts(IF n33 < n88 THEN n88 ELSE n33) :
              /\ ~Analysed
              /\ st' = [v \in Versions |->
                          analyze_network(v, st[v], min_elevation_deg, script)]
              /\ UNCHANGED <<pc, loc>>

Close ==
    /\ ~Analysed
    /\ st' = [v \in Versions |-> close(v, st[v])]
    /\ UNCHANGED <<pc, loc>>

Next ==
    \/ CreateScenario
    \/ CreateSatellite
    \/ CreateGroundStation
    \/ CreateAircraft
    \/ AnalyzeNetwork
    \/ Close

Spec == Init /\ [][Next]_vars

(***************************************************************************)
(* SpecMain: main of one of the scripts, statement by statement.           *)
(* pc[v].at is the statement main is at; an exception that escapes a       *)
(* method ends main ("crashed"), Ctrl+C ends it where it is                *)
(* ("interrupted") unless main catches it.                                 *)
(***************************************************************************)
Stmt(op, arg) == [op |-> op, arg |-> arg]

MainCommon ==
    << Stmt("init", 0), Stmt("create_scenario", 0),
       Stmt("create_satellite", 1), Stmt("create_satellite", 2),
       Stmt("create_ground_station", 1), Stmt("create_ground_station", 2),
       Stmt("create_ground_station", 3),
       Stmt("create_aircraft", 1), Stmt("create_aircraft", 2) >>

\* a variant: the CSV is exported before the analysis
MainOutputExportFirst ==
    << Stmt("export_results_to_csv", 0), Stmt("analyze_network", 0),
       Stmt("visualize_access_timeline", 0), Stmt("generate_report", 0),
       Stmt("summary", 0) >>

MainOutput ==
    << Stmt("analyze_network", 0), Stmt("export_results_to_csv", 0),
       Stmt("visualize_access_timeline", 0), Stmt("generate_report", 0),
       Stmt("summary", 0) >>

\* a variant: main of Analysis88 without its wait loop
MainProgramNoWait(v) ==
    IF v = 33 THEN MainCommon \o MainOutput
    ELSE MainCommon
         \o << Stmt("open_3d_graphics", 0), Stmt("zoom_to_objects", 0),
               Stmt("save_scenario", 0) >>
         \o MainOutput

MainProgram(v) ==
    IF v = 33 THEN MainCommon \o MainOutput
    ELSE MainCommon
         \o << Stmt("open_3d_graphics", 0), Stmt("zoom_to_objects", 0),
               Stmt("save_scenario", 0) >>
         \o MainOutput \o << Stmt("wait", 0) >>

Running(v) == pc[v].status = "running"

At(v, op) == Running(v) /\ MainProgram(v)[pc[v].at].op = op

Arg(v) == MainProgram(v)[pc[v].at].arg

\* main after a statement: the next statement, the end, or the exception
After(v, raised) ==
    IF raised THEN [at |-> pc[v].at, status |-> "crashed"]
    ELSE IF pc[v].at = Len(MainProgram(v)) THEN [at |-> pc[v].at, status |-> "done"]
    ELSE [at |-> pc[v].at + 1, status |-> "running"]

\* statement `op` of main calls a method that takes the analyzer to s
Call(v, s) ==
    /\ st' = [st EXCEPT ![v] = s]
    /\ pc' = [pc EXCEPT ![v] = After(v, s.ret.raised)]

InitMain ==
    /\ st = [v \in Versions |-> NotStarted(MainScenarioName)]
    /\ \E r \in Versions :
          pc = [v \in Versions |-> IF v = r THEN [at |-> 1, status |-> "running"]
                                   ELSE Idle]
    /\ loc = [v \in Versions |-> NoLocals]

MainInit(v) ==
    /\ At(v, "init")
    /\ \E fail \in {"none", "StartApplication", "Visible"} :
          Call(v, init(v, MainScenarioName, fail))
    /\ UNCHANGED loc

MainCreateScenario(v) ==
    /\ At(v, "create_scenario")
    /\ \E fail \in ScenarioFailures :
          Call(v, create_scenario(v, st[v], MainStartTime, MainDurationHours, fail))
    /\ UNCHANGED loc

MainCreateSatellite(v) ==
    /\ At(v, "create_satellite")
    /\ \E fail \in SatelliteFailures :
          Call(v, create_satellite(v, st[v], MainSatellites[Arg(v)].name,
                                   MainSatellites[Arg(v)].coe, fail))
    /\ UNCHANGED loc

MainCreateGroundStation(v) ==
    /\ At(v, "create_ground_station")
    /\ \E fail \in GroundStationFailures :
          Call(v, create_ground_station(v, st[v], MainGroundStations[Arg(v)].name,
                                        MainGroundStations[Arg(v)].pos, fail))
    /\ UNCHANGED loc

MainCreateAircraft(v) ==
    /\ At(v, "create_aircraft")
    /\ \E fail \in AircraftFailures :
          Call(v, create_aircraft(v, st[v], MainAircraft[Arg(v)].name,
                                  MainAircraft[Arg(v)].a, fail))
    /\ UNCHANGED loc

MainOpen3D(v) ==
    /\ At(v, "open_3d_graphics")
    /\ \E fail \in {"none", "CreateWindow"} : Call(v, open_3d_graphics(v, st[v], fail))
    /\ UNCHANGED loc

MainZoom(v) ==
    /\ At(v, "zoom_to_objects")
    /\ \E fail \in {"none", "ZoomToAllObjects"} : Call(v, zoom_to_objects(v, st[v], fail))
    /\ UNCHANGED loc

\* scenario_path = analyzer.save_scenario()
MainSave(v) ==
    /\ At(v, "save_scenario")
    /\ \E bad \in {{}, {"makedirs"}, {"SaveScenarioAs"}, {"SaveScenarioAs", "Unload"}} :
          LET s == save_scenario(v, st[v], bad)
          IN /\ Call(v, s)
             /\ loc' = [loc EXCEPT ![v].scenario_path =
                           IF s.ret.raised THEN NoPath ELSE s.ret.value]

\* results = analyzer.analyze_network(min_elevation_deg=10)
MainAnalyze(v) ==
    /\ At(v, "analyze_network")
    /\ \E script \in Scripts(Len(Requests(st[v], MainMinElevation))) :
          LET s == analyze_network(v, st[v], MainMinElevation, script)
          IN /\ Call(v, s)
             /\ loc' = [loc EXCEPT ![v].results =
                           IF s.ret.raised THEN <<>> ELSE s.ret.value]

OutputFailures == {"none", "makedirs"}

MainExport(v) ==
    /\ At(v, "export_results_to_csv")
    /\ \E fail \in OutputFailures \cup {"to_csv"} :
          Call(v, export_results_to_csv(v, st[v], loc[v].results, CsvName, fail))
    /\ UNCHANGED loc

MainVisualize(v) ==
    /\ At(v, "visualize_access_timeline")
    /\ \E fail \in OutputFailures \cup {"savefig"} :
          Call(v, visualize_access_timeline(v, st[v], loc[v].results, PngName, fail))
    /\ UNCHANGED loc

MainReport(v) ==
    /\ At(v, "generate_report")
    /\ \E fail \in OutputFailures \cup {"open"} :
          Call(v, generate_report(v, st[v], loc[v].results, TxtName, fail))
    /\ UNCHANGED loc

\* the files main lists under "Generated files:" and what it says of the
\* scenario
summary(v, l) ==
    [ l EXCEPT
        !.listed = {CsvName, PngName, TxtName}
                   \cup (IF v = 88 /\ l.scenario_path # NoPath
                         THEN {MainScenarioName \o ".sc"} ELSE {}),
        !.said = IF v = 33 THEN {"STK scenario remains open for inspection."}
                 ELSE {"STK SCENARIO IS NOW OPEN AND READY FOR MANUAL EDITING",
                       "The scenario has been saved."} ]

MainSummary(v) ==
    /\ At(v, "summary")
    /\ loc' = [loc EXCEPT ![v] = summary(v, loc[v])]
    /\ pc' = [pc EXCEPT ![v] = After(v, FALSE)]
    /\ UNCHANGED st

\* while True: time.sleep(1)
MainWait(v) ==
    /\ At(v, "wait")
    /\ UNCHANGED vars

\* Ctrl+C: caught in the wait loop of Analysis88, where main then returns
KeyboardInterrupt(v) ==
    /\ Running(v)
    /\ pc' = [pc EXCEPT ![v] = [at |-> pc[v].at,
                                status |-> IF At(v, "wait") THEN "done"
                                           ELSE "interrupted"]]
    /\ UNCHANGED <<st, loc>>

NextMain ==
    \E v \in Versions :
        \/ MainInit(v)
        \/ MainCreateScenario(v)
        \/ MainCreateSatellite(v)
        \/ MainCreateGroundStation(v)
        \/ MainCreateAircraft(v)
        \/ MainOpen3D(v)
        \/ MainZoom(v)
        \/ MainSave(v)
        \/ MainAnalyze(v)
        \/ MainExport(v)
        \/ MainVisualize(v)
        \/ MainReport(v)
        \/ MainSummary(v)
        \/ MainWait(v)
        \/ KeyboardInterrupt(v)

SpecMain == InitMain /\ [][NextMain]_vars

(***************************************************************************)
(* SpecAircraft: create_aircraft with every flight main passes and every   *)
(* host call of it raising, on both scripts side by side.                  *)
(***************************************************************************)
FlightNames == {"X", "Y"}

CreateAnyAircraft ==
    \E name \in FlightNames, i \in DOMAIN MainAircraft,
       fail \in {"none"} \cup Range(CreateAircraftCalls) :
        /\ Room
        /\ st' = [v \in Versions |->
                    create_aircraft(v, st[v], name, MainAircraft[i].a, fail)]
        /\ UNCHANGED <<pc, loc>>

NextAircraft ==
    \/ CreateScenario
    \/ CreateAnyAircraft
    \/ Close

SpecAircraft == Init /\ [][NextAircraft]_vars

Aircraft(v) == {o \in st[v].objects : o.h.cls = "Aircraft"}

\* the route create_aircraft is to leave for the flight a
WaypointsOf(v, a) ==
    << [ Latitude |-> a.latitude_start, Longitude |-> a.longitude_start,
         Altitude |-> a.altitude_m, Speed |-> a.speed_mps ],
       [ Latitude |-> calculate_destination(v, a.latitude_start, a.longitude_start,
                                            1000, a.heading_deg)[1],
         Longitude |-> calculate_destination(v, a.latitude_start, a.longitude_start,
                                             1000, a.heading_deg)[2],
         Altitude |-> a.altitude_m, Speed |-> a.speed_mps ] >>

\* C3: every aircraft of self.aircraft has exactly two waypoints, the first
\* at the start of its flight and the second at the destination 1000 km
\* along the heading, both with the flight's altitude and speed, and the
\* host propagated its route from these two waypoints; a route is never
\* propagated from fewer.
C3_TwoWaypointPath ==
    \A v \in Versions :
        /\ \A i \in 1..Len(st[v].aircraft) :
              \E o \in Aircraft(v) :
                 /\ o.h = st[v].aircraft[i]
                 /\ \E k \in DOMAIN MainAircraft :
                       o.waypoints = WaypointsOf(v, MainAircraft[k].a)
                 /\ o.route = <<o.waypoints>>
        /\ \A o \in Aircraft(v) :
              o.route # <<>> =>
                 /\ o.route = <<o.waypoints>>
                 /\ \E k \in DOMAIN MainAircraft :
                       o.waypoints = WaypointsOf(v, MainAircraft[k].a)

\* an aircraft was created, and for another the host raised at Propagate,
\* with both waypoints set
C3_Witness ==
    \E v \in Versions :
        /\ Len(st[v].aircraft) = 1
        /\ \E o \in Aircraft(v) :
              /\ o.h \notin Range(st[v].aircraft)
              /\ Len(o.waypoints) = 2
              /\ o.route = <<>>

(***************************************************************************)
(* Claims about analyze_network, under Spec.                               *)
(***************************************************************************)
\* the run of analyze_network of script v has returned its results
Returns(v) == st[v].ret.op = "analyze_network" /\ ~st[v].ret.raised

\* the requests of the run of script v that compute_access was called for
CallsFor(v, from_object, to_object) ==
    {i \in 1..Len(st[v].calls) :
        st[v].calls[i].from = from_object /\ st[v].calls[i].to = to_object}

\* the pair was computed exactly once, by compute_access then
\* get_access_intervals, and results holds its intervals under its key
EntryFor(v, from_object, to_object, key) ==
    /\ Cardinality(CallsFor(v, from_object, to_object)) = 1
    /\ \A i \in CallsFor(v, from_object, to_object) :
          /\ st[v].calls[i].computed /\ st[v].calls[i].got
          /\ HasKey(st[v].ret.value, key)
          /\ DictGet(st[v].ret.value, key) = st[v].calls[i].intervals

\* C1: when analyze_network returns, compute_access and get_access_intervals
\* were called exactly once for every (satellite, ground station), (satellite,
\* aircraft) and (ground station, aircraft) pair, |S|*|G| + |S|*|A| + |G|*|A|
\* times in total, and results holds an entry with the intervals of each of
\* these pairs, the empty list included.
C1_EntryForEveryPair ==
    \A v \in Versions :
        Returns(v) =>
            LET S == st[v].satellites
                G == st[v].ground_stations
                A == st[v].aircraft
            IN /\ Len(st[v].calls) = Len(S) * Len(G) + Len(S) * Len(A) + Len(G) * Len(A)
               /\ \A i \in 1..Len(S), j \in 1..Len(G) :
                     EntryFor(v, G[j], S[i], S[i].name \o "-" \o G[j].name)
               /\ \A i \in 1..Len(S), j \in 1..Len(A) :
                     EntryFor(v, A[j], S[i], S[i].name \o "-" \o A[j].name)
               /\ \A i \in 1..Len(G), j \in 1..Len(A) :
                     EntryFor(v, G[i], A[j], A[j].name \o "-" \o G[i].name)

\* the number of requests of a run over the lists of script v
NumRequests(v) ==
    Len(st[v].satellites) * Len(st[v].ground_stations)
    + Len(st[v].satellites) * Len(st[v].aircraft)
    + Len(st[v].ground_stations) * Len(st[v].aircraft)

\* the host raised in get_access_intervals for request i of script v
RetrievalFailed(v, i) ==
    /\ st[v].calls[i].got
    /\ st[v].calls[i].raises \cap Range(GetAccessIntervalsCalls) # {}

\* C5: when the provider lookup, Exec or a data-set retrieval raises,
\* get_access_intervals returns the empty list, analyze_network stores it
\* under the link's key and goes on to the next pair; no run of
\* analyze_network is ended by an exception of these calls.
C5_RetrievalFailureGivesEmptyList ==
    \A v \in Versions :
        /\ \A i \in 1..Len(st[v].calls) :
              RetrievalFailed(v, i) =>
                 /\ st[v].calls[i].intervals = <<>>
                 /\ st[v].calls[i].stored = << <<>> >>
                 /\ i < NumRequests(v) => Len(st[v].calls) > i
                 /\ i = NumRequests(v) => Returns(v)
        /\ st[v].ret.raised => st[v].ret.at \notin Range(GetAccessIntervalsCalls)

\* a retrieval failed for a request that was not the last, and the run returned
C5_Witness ==
    \E v \in Versions :
        /\ Returns(v)
        /\ \E i \in 1..Len(st[v].calls) : RetrievalFailed(v, i) /\ i < Len(st[v].calls)

\* the last request of the run of script v that stored under the key
LastFor(v, key) ==
    CHOOSE i \in 1..Len(st[v].calls) :
        /\ st[v].calls[i].key = key
        /\ \A j \in (i+1)..Len(st[v].calls) : st[v].calls[j].key # key

\* C6: the i-th interval get_access_intervals returns has the i-th "Start
\* Time", "Stop Time" and "Duration" of the host, in the host's order, and
\* what is stored in results is that list unchanged.
C6_IntervalsAreTheHostsRows ==
    \A v \in Versions :
        /\ \A i \in 1..Len(st[v].calls) :
              LET c == st[v].calls[i]
              IN (c.got /\ ~RetrievalFailed(v, i)) =>
                    /\ Len(c.intervals) = Len(c.rows[1])
                    /\ \A k \in 1..Len(c.intervals) :
                          /\ c.intervals[k].start = c.rows[1][k]
                          /\ c.intervals[k].stop = c.rows[2][k]
                          /\ c.intervals[k].duration = c.rows[3][k]
                    /\ c.stored = <<c.intervals>>
        /\ Returns(v) =>
              \A n \in 1..Len(st[v].ret.value) :
                 LET e == st[v].ret.value[n]
                 IN /\ \E i \in 1..Len(st[v].calls) : st[v].calls[i].key = e.key
                    /\ e.value = st[v].calls[LastFor(v, e.key)].intervals

\* a run returned a link with two access periods
C6_Witness ==
    \E v \in Versions :
        /\ Returns(v)
        /\ \E n \in 1..Len(st[v].ret.value) : Len(st[v].ret.value[n].value) = 2

\* the requests of the run of script v for which ComputeAccess was called
Computed(v) == {i \in 1..Len(st[v].calls) : st[v].calls[i].computed}

\* C7 as stated: an access is computed with the minimum elevation set exactly
\* when from_object is a Facility, to the min_elevation_deg passed to
\* analyze_network; the ground station is the from_object of the accesses
\* with a ground station, the aircraft that of the satellite-aircraft ones.
C7_ElevationSetExactlyForFacilities ==
    \A v \in Versions : \A i \in Computed(v) :
        LET c == st[v].calls[i]
        IN /\ (c.min_elevation # <<>>) <=> (c.from.cls = "Facility")
           /\ c.from.cls = "Facility" => c.min_elevation = <<st[v].args[1]>>
           /\ \/ c.from.cls = "Facility" /\ c.to.cls \in {"Satellite", "Aircraft"}
              \/ c.from.cls = "Aircraft" /\ c.to.cls = "Satellite"

\* C7, amended: the minimum elevation is set only when from_object is a
\* Facility, to the min_elevation_deg passed to analyze_network and before
\* ComputeAccess is called; Analysis33 computes no access from a Facility
\* without it; Analysis88 does, exactly when both of its attempts to set it
\* raised.
C7_ElevationSetOnlyForFacilities ==
    \A v \in Versions : \A i \in Computed(v) :
        LET c == st[v].calls[i]
        IN /\ c.min_elevation # <<>> =>
                 c.from.cls = "Facility" /\ c.min_elevation = <<st[v].args[1]>>
           /\ (c.from.cls = "Facility" /\ c.min_elevation = <<>>) <=>
                 /\ v = 88
                 /\ c.from.cls = "Facility"
                 /\ {"ElevationAngleConstraint", "VO.MinElevationAngle"} \subseteq c.raises
           /\ \/ c.from.cls = "Facility" /\ c.to.cls \in {"Satellite", "Aircraft"}
              \/ c.from.cls = "Aircraft" /\ c.to.cls = "Satellite"

\* both scripts computed an access from a ground station to a satellite and
\* to an aircraft with the elevation set, and one from an aircraft without
C7_Witness ==
    \A v \in Versions :
        /\ \E i \in Computed(v) :
              st[v].calls[i].to.cls = "Satellite" /\ st[v].calls[i].min_elevation # <<>>
        /\ \E i \in Computed(v) :
              st[v].calls[i].to.cls = "Aircraft" /\ st[v].calls[i].min_elevation # <<>>
        /\ \E i \in Computed(v) : st[v].calls[i].from.cls = "Aircraft"

\* the host calls script v makes in the methods both scripts have
HostCalls(v) ==
    Range(CreateScenarioCalls) \cup Range(CreateSatelliteCalls(v))
    \cup Range(CreateGroundStationCalls) \cup Range(CreateAircraftCalls)
    \cup Range(ComputeAccessCalls(v, Handle("Facility", "G")))
    \cup Range(GetAccessIntervalsCalls)

\* the host calls only script v makes
OwnCalls(v) == HostCalls(v) \ HostCalls(IF v = 33 THEN 88 ELSE 33)

\* the last method of one of the scripts was ended by a call only it makes
EndedByOwnCall ==
    \E v \in Versions : st[v].ret.raised /\ st[v].ret.at \in OwnCalls(v)

\* the pairs the run of script v called ComputeAccess for, in order
ComputedPairs(v) ==
    LET pairs == [i \in 1..Len(st[v].calls) |-> <<st[v].calls[i].from, st[v].calls[i].to>>]
        F[i \in 0..Len(pairs)] ==
            IF i = 0 THEN <<>>
            ELSE IF st[v].calls[i].computed THEN Append(F[i-1], pairs[i]) ELSE F[i-1]
    IN F[Len(pairs)]

\* the two scripts hold the same lists, computed accesses for the same pairs
\* and their last method ended the same way with the same value
SameOutcome ==
    /\ st[33].satellites = st[88].satellites
    /\ st[33].ground_stations = st[88].ground_stations
    /\ st[33].aircraft = st[88].aircraft
    /\ ComputedPairs(33) = ComputedPairs(88)
    /\ st[33].ret.op = st[88].ret.op
    /\ st[33].ret.raised = st[88].ret.raised
    /\ st[33].ret.value = st[88].ret.value

StmtAt(v, op) ==
    CHOOSE i \in 1..Len(MainProgram(v)) :
        /\ MainProgram(v)[i].op = op
        /\ \A j \in 1..(i-1) : MainProgram(v)[j].op # op

\* main of script v has got past its call of op
Finished(v, op) == pc[v] # Idle /\ pc[v].at > StmtAt(v, op)

\* main of script v has reached its call of op
Reached(v, op) == pc[v] # Idle /\ pc[v].at >= StmtAt(v, op)

\* the files of export_results_to_csv, visualize_access_timeline and
\* generate_report
AnalysisFiles(v) ==
    {OutputPath(v, CsvName), OutputPath(v, PngName), OutputPath(v, TxtName)}

\* the stages of main follow one another
StagesInOrder(v) ==
    /\ st[v].objects # {} => Finished(v, "create_scenario") /\ st[v].scenario # NoScenario
    /\ st[v].calls # <<>> =>
          /\ Reached(v, "analyze_network")
          /\ Len(st[v].satellites) = Len(MainSatellites)
          /\ Len(st[v].ground_stations) = Len(MainGroundStations)
          /\ Len(st[v].aircraft) = Len(MainAircraft)
    /\ Reached(v, "export_results_to_csv") => Returns(v) \/ st[v].calls = <<>>
    /\ OutputPath(v, CsvName) \in st[v].files =>
          Finished(v, "analyze_network") /\ loc[v].results # <<>>
    /\ OutputPath(v, PngName) \in st[v].files =>
          Finished(v, "export_results_to_csv") /\ OutputPath(v, CsvName) \in st[v].files
    /\ OutputPath(v, TxtName) \in st[v].files =>
          Finished(v, "visualize_access_timeline") /\ OutputPath(v, PngName) \in st[v].files

\* C2 as stated: main creates the scenario before any entity, every entity
\* before the first compute_access, and runs analyze_network, the CSV export,
\* the plot and the report one after the other; no file is written before
\* analyze_network has returned.
C2_NoFileBeforeAnalysis ==
    \A v \in Versions :
        /\ StagesInOrder(v)
        /\ st[v].files # {} => Finished(v, "analyze_network")

\* C2, amended: the stages follow one another as stated; the CSV, the plot
\* and the report are written only after analyze_network has returned;
\* the one file written before it is the scenario file, which main of
\* Analysis88 saves with save_scenario before it calls analyze_network.
C2_NoAnalysisFileBeforeAnalysis ==
    \A v \in Versions :
        /\ StagesInOrder(v)
        /\ st[v].files \cap AnalysisFiles(v) # {} => Finished(v, "analyze_network")
        /\ st[v].files \subseteq AnalysisFiles(v) \cup {ScenarioPath(st[v])}
        /\ ScenarioPath(st[v]) \in st[v].files =>
              /\ v = 88
              /\ Finished(v, "save_scenario")
              /\ StmtAt(v, "save_scenario") < StmtAt(v, "analyze_network")

\* main of Analysis88 has saved the scenario and written the three files
C2_Witness ==
    /\ AnalysisFiles(88) \cup {ScenarioPath(st[88])} \subseteq st[88].files
    /\ Finished(88, "generate_report")

\* the bars of a timeline whose bars start at the intervals' start times
RECURSIVE TimelineBars(_, _)
TimelineBars(results, n) ==
    IF n > Len(results) THEN <<>>
    ELSE [i \in 1..Len(results[n].value) |->
            [ y |-> n - 1,
              width |-> (results[n].value[i].duration * HourScale) \div SecondsPerHour,
              left |-> (results[n].value[i].start * HourScale) \div SecondsPerHour ]]
         \o TimelineBars(results, n + 1)

\* C8: the plot has one bar for every access interval of every link, on the
\* link's row, starting at the interval's start time in hours from the
\* scenario's start and as long as the interval's duration in hours.
C8_BarsStartAtIntervalStart ==
    \A v \in Versions :
        st[v].plot # <<>> => st[v].plot[1].bars = TimelineBars(loc[v].results, 1)

\* C9: save_scenario returns a path only if the host saved the scenario to
\* it; main of Analysis88 lists the .sc file and says the scenario has been
\* saved only when the file was written.
C9_PathOnlyIfSaved ==
    /\ (st[88].ret.op = "save_scenario" /\ ~st[88].ret.raised /\ st[88].ret.value # NoPath)
          => st[88].ret.value \in st[88].files
    /\ loc[88].scenario_path # NoPath => loc[88].scenario_path \in st[88].files
    /\ (MainScenarioName \o ".sc") \in loc[88].listed => ScenarioPath(st[88]) \in st[88].files
    /\ "The scenario has been saved." \in loc[88].said => ScenarioPath(st[88]) \in st[88].files

\* C10: when main of Analysis33 has finished, or main of Analysis88 has been
\* ended by Ctrl+C after it created the scenario, the host is running and
\* the scenario is open; close() leaves the analyzer and the host as they are.
C10_HostLeftRunningScenarioOpen ==
    \A v \in Versions :
        /\ [close(v, st[v]) EXCEPT !.calls = st[v].calls, !.args = st[v].args,
                                    !.ret = st[v].ret] = st[v]
        /\ ( /\ Finished(v, "create_scenario")
             /\ \/ v = 33 /\ pc[v].status = "done"
                \/ v = 88 /\ pc[v].status \in {"done", "interrupted"} )
           => st[v].stk /\ st[v].open

(***************************************************************************)
(* SpecMainFair: main keeps executing its statements, every host call      *)
(* returns or raises.  Nothing obliges a Ctrl+C to arrive, and the wait    *)
(* loop of Analysis88 has no exit of its own.                              *)
(***************************************************************************)
\* main of script v executes the statement it is at: it goes on to the next
\* statement, or ends, by its return or by the exception the statement
\* raised.  These are the steps of MainInit .. MainSummary, and one of them
\* is possible wherever main is running and not in its wait loop.
MainStep(v) ==
    /\ Running(v)
    /\ ~At(v, "wait")
    /\ \E raised \in BOOLEAN : pc' = [pc EXCEPT ![v] = After(v, raised)]

SpecMainFair == SpecMain /\ \A v \in Versions : WF_pc(MainStep(v))

\* the report has been generated and nothing was called since
ReportGenerated(v) == st[v].ret.op = "generate_report" /\ ~st[v].ret.raised

\* C11: main of Analysis33 ends, and returns only after the report was
\* generated, by its last statement; main of Analysis88 gets to its wait
\* loop or ends with an exception, leaves the loop only by a
\* KeyboardInterrupt, and then returns normally.
C11_Termination ==
    /\ (pc[33].status = "running") ~> (pc[33].status # "running")
    /\ (pc[88].status = "running") ~> (At(88, "wait") \/ pc[88].status # "running")
    /\ [][ /\ (pc[33].status = "running" /\ pc'[33].status = "done") =>
                 (ReportGenerated(33) /\ MainSummary(33))
           /\ (pc[88].status = "running" /\ pc'[88].status = "done") =>
                 (ReportGenerated(88) /\ At(88, "wait") /\ KeyboardInterrupt(88))
           /\ At(88, "wait") => (ReportGenerated(88) /\ pc'[88].status \in {"running", "done"})
         ]_vars

\* main of Analysis88 has returned from its wait loop
C11_Witness ==
    /\ pc[88].status = "done"
    /\ ReportGenerated(88)
    /\ OutputPath(88, TxtName) \in st[88].files

\* the calls of compute_access of Analysis88 that set the elevation
ElevationCalls == {"ElevationAngleConstraint", "VO.MinElevationAngle"}

\* request i of the run of Analysis88 got its access object for a Facility
FromFacility88(i) ==
    /\ st[88].calls[i].from.cls = "Facility"
    /\ "GetAccessToObject" \notin st[88].calls[i].raises

\* C12: in Analysis88, for a Facility, compute_access sets
\* ElevationAngleConstraint, or when that raises VO.MinElevationAngle, or
\* when that raises too nothing; in each case ComputeAccess is then called,
\* once, and no run is ended by an exception of the two elevation calls.
C12_ElevationFailureNeverStopsAccess ==
    /\ st[88].ret.raised => st[88].ret.at \notin ElevationCalls
    /\ \A i \in 1..Len(st[88].calls) :
          LET c == st[88].calls[i]
              seq == ComputeAccessCalls(88, c.from)
          IN FromFacility88(i) =>
                /\ c.via = ( IF "ElevationAngleConstraint" \notin c.raises
                             THEN "ElevationAngleConstraint"
                             ELSE IF "VO.MinElevationAngle" \notin c.raises
                             THEN "VO.MinElevationAngle"
                             ELSE "none" )
                /\ c.via # "none" => c.min_elevation = <<st[88].args[1]>>
                /\ \/ c.computed
                   \/ /\ "ComputeAccess" \in c.raises
                      /\ i = Len(st[88].calls)
                      /\ st[88].ret.raised /\ st[88].ret.at = "ComputeAccess"
                /\ Cardinality({k \in 1..Len(seq) : seq[k] = "ComputeAccess"}) = 1
                /\ Pos(seq, "ElevationAngleConstraint") < Pos(seq, "VO.MinElevationAngle")
                /\ Pos(seq, "VO.MinElevationAngle") < Pos(seq, "ComputeAccess")

\* one run of Analysis88 computed an access after the second attempt
\* succeeded and another after both attempts raised
C12_Witness ==
    /\ Returns(88)
    /\ \E i \in 1..Len(st[88].calls) :
          FromFacility88(i) /\ st[88].calls[i].computed
          /\ st[88].calls[i].via = "VO.MinElevationAngle"
    /\ \E i \in 1..Len(st[88].calls) :
          FromFacility88(i) /\ st[88].calls[i].computed
          /\ st[88].calls[i].via = "none"

(***************************************************************************)
(* SpecOutput: export_results_to_csv, visualize_access_timeline and        *)
(* generate_report called, in any order, with any results map of at most   *)
(* MaxLinks links, on both scripts side by side.                           *)
(***************************************************************************)
MaxLinks == 2

\* keys of links, as analyze_network makes them
LinkNames == {"X-G", "X-H", "Y-G"}

\* the lists of intervals get_access_intervals returns for the host's rows
IntervalLists ==
    {Marshal(cols.start_times, cols.stop_times, cols.durations, 1) : cols \in RowSets}

\* dicts of at most MaxLinks links
ResultMaps ==
    UNION { { r \in [1..n -> [key : LinkNames, value : IntervalLists]] :
                \A i, j \in 1..n : i # j => r[i].key # r[j].key }
            : n \in 0..MaxLinks }

InitOutput ==
    /\ st = [v \in Versions |->
                create_scenario(v, init(v, MainScenarioName, "none"),
                                MainStartTime, MainDurationHours, "none")]
    /\ pc = [v \in Versions |-> Idle]
    /\ \E results \in ResultMaps :
          loc = [v \in Versions |-> [NoLocals EXCEPT !.results = results]]

ExportResults ==
    \E fail \in OutputFailures \cup {"to_csv"} :
        /\ st' = [v \in Versions |->
                    export_results_to_csv(v, st[v], loc[v].results, CsvName, fail)]
        /\ UNCHANGED <<pc, loc>>

VisualizeTimeline ==
    \E fail \in OutputFailures \cup {"savefig"} :
        /\ st' = [v \in Versions |->
                    visualize_access_timeline(v, st[v], loc[v].results, PngName, fail)]
        /\ UNCHANGED <<pc, loc>>

GenerateReport ==
    \E fail \in OutputFailures \cup {"open"} :
        /\ st' = [v \in Versions |->
                    generate_report(v, st[v], loc[v].results, TxtName, fail)]
        /\ UNCHANGED <<pc, loc>>

NextOutput ==
    \/ ExportResults
    \/ VisualizeTimeline
    \/ GenerateReport

SpecOutput == InitOutput /\ [][NextOutput]_vars

\* the number of intervals of the links before link n
RECURSIVE IntervalsBefore(_, _)
IntervalsBefore(results, n) ==
    IF n <= 1 THEN 0
    ELSE IntervalsBefore(results, n - 1) + Len(results[n - 1].value)

\* C13: the CSV has one row per access interval: as many rows as the links
\* have intervals together, the rows of a link after those of the links
\* inserted before it and in the order of its intervals, each with the
\* link's key and the interval's start, stop and duration; a link with no
\* interval has no row.
C13_OneRowPerInterval ==
    \A v \in Versions :
        st[v].csv # <<>> =>
            LET rows == st[v].csv[1].rows
                results == loc[v].results
            IN /\ st[v].csv[1].path \in st[v].files
               /\ Len(rows) = IntervalsBefore(results, Len(results) + 1)
               /\ \A n \in 1..Len(results) : \A i \in 1..Len(results[n].value) :
                     rows[IntervalsBefore(results, n) + i] =
                        [ Link |-> results[n].key,
                          StartTime |-> results[n].value[i].start,
                          StopTime |-> results[n].value[i].stop,
                          Duration |-> results[n].value[i].duration ]
               /\ \A n \in 1..Len(results) :
                     results[n].value = <<>> =>
                        \A k \in 1..Len(rows) : rows[k].Link # results[n].key

\* a CSV of two rows was written for a link without access followed by a
\* link with two access periods
C13_Witness ==
    \E v \in Versions :
        /\ st[v].csv # <<>>
        /\ Len(st[v].csv[1].rows) = 2
        /\ Len(loc[v].results) = 2
        /\ loc[v].results[1].value = <<>>

\* the sum of the durations of the first n intervals
RECURSIVE DurationOfFirst(_, _)
DurationOfFirst(intervals, n) ==
    IF n = 0 THEN 0 ELSE DurationOfFirst(intervals, n - 1) + intervals[n].duration

\* C14: the report has one section per link of results, in insertion order;
\* the section of a link with intervals gives their number, the sum of
\* their durations and that sum divided by their number (to two decimals);
\* the section of a link without says that no access period was found, and
\* nothing is divided for it.
C14_OneSectionPerLink ==
    \A v \in Versions :
        st[v].report # <<>> =>
            LET sections == st[v].report[1].sections
                results == loc[v].results
            IN /\ Len(sections) = Len(results)
               /\ \A n \in 1..Len(results) :
                     LET sec == sections[n]
                         intervals == results[n].value
                         total == DurationOfFirst(intervals, Len(intervals))
                     IN /\ sec.link = results[n].key
                        /\ sec.found <=> (intervals # <<>>)
                        /\ sec.found =>
                              /\ sec.periods = Len(intervals) /\ sec.periods > 0
                              /\ sec.total = total
                              /\ sec.average * sec.periods <= total * 100
                              /\ total * 100 < (sec.average + 1) * sec.periods
                        /\ ~sec.found => sec.periods = 0 /\ sec.average = 0

\* a report was written for a link without access and a link with two
\* access periods
C14_Witness ==
    \E v \in Versions :
        /\ st[v].report # <<>>
        /\ \E n, m \in 1..Len(st[v].report[1].sections) :
              /\ ~st[v].report[1].sections[n].found
              /\ st[v].report[1].sections[m].periods = 2

(***************************************************************************)
(* SpecDestination: _calculate_destination of both scripts called with the *)
(* same arguments.  Degrees are in units of 1/Scale.                       *)
(***************************************************************************)
\* the starts of the flights of main, the equator, the pole, and the start
\* of a flight of 100 km due north that ends at the pole
DestinationInputs ==
    [ lat1 : {0, 407128, 515074, 891007, 900000},
      lon1 : {-740060, -1278},
      distance_km : {0, 100, distance_km},
      bearing_deg : {0, 450000, 900000, 1800000} ]

Roundings == {-1, 0, 1}

InitDestination ==
    /\ st = [v \in Versions |-> init(v, MainScenarioName, "none")]
    /\ pc = [v \in Versions |-> Idle]
    /\ \E in \in DestinationInputs :
          loc = [v \in Versions |-> [in |-> in, out |-> <<>>]]

CalculateDestination ==
    \E rounding \in Roundings :
        /\ \A v \in Versions : loc[v].out = <<>>
        /\ loc' = [v \in Versions |->
                     [loc[v] EXCEPT !.out =
                         << destination(v, loc[v].in.lat1, loc[v].in.lon1,
                                        loc[v].in.distance_km, loc[v].in.bearing_deg,
                                        rounding) >>]]
        /\ UNCHANGED <<st, pc>>

NextDestination == CalculateDestination

SpecDestination == InitDestination /\ [][NextDestination]_vars

\* what the fixed-point arithmetic resolves, in units of 1/Scale degree
Resolution == Scale \div 50

\* two latitudes the arithmetic cannot tell apart: arcsin is steep at the
\* poles, so there latitudes are compared by their sines
SameLatitude(a, b) ==
    \/ Abs(a - b) <= Resolution
    \/ Abs(Sin(Radians(a)) - Sin(Radians(b))) <= 2

\* both scripts returned a point
BothReturned ==
    \A v \in Versions :
        /\ loc[v].out # <<>>
        /\ ~loc[v].out[1].raised /\ ~loc[v].out[1].nan

\* the part of C15 that holds: where both scripts return a point it is the
\* same point, a latitude, and for distance 0 the start
C15_SamePointWhereReturned ==
    BothReturned =>
        LET p33 == loc[33].out[1].value
            p88 == loc[88].out[1].value
            in == loc[33].in
        IN /\ p33 = p88
           /\ Abs(p33[1]) <= 90 * Scale + Resolution
           /\ in.distance_km = 0 =>
                 /\ SameLatitude(p33[1], in.lat1)
                 /\ Abs(p33[2] - in.lon1) <= Resolution

\* C15: for every input the numpy version of Analysis33 and the math
\* version of Analysis88 return the same point, the great-circle
\* destination, which for distance 0 is the start.
C15_SameDestinationForEveryInput ==
    (\A v \in Versions : loc[v].out # <<>>) =>
        /\ BothReturned
        /\ C15_SamePointWhereReturned

====
